---- MODULE Spec2Model ----
(***************************************************************************)
(* A model of server.py: the HandwritingHandler request handler (engine    *)
(* memoization in __init__, routing in do_OPTIONS / do_GET / do_POST, the  *)
(* validation and temp-file pipeline of handle_generate_request, and       *)
(* send_error_response) served by the single-threaded HTTPServer loop of   *)
(* run_server.                                                             *)
(*                                                                         *)
(* Text (exception messages, response bodies, file contents) is a sequence *)
(* of string tokens; the strings of a JSON payload are TLA+ strings.       *)
(***************************************************************************)
EXTENDS Integers, Sequences, FiniteSets, TLC

(***************************************************************************)
(* Bounds of the model.                                                    *)
(***************************************************************************)
\* connections that may wait in the listen backlog
MaxPending == 2
\* handler instances that can exist at once (HTTPServer uses one at a time)
NumHandlers == 2

\* the line-length limit of server.py line 163
MaxLineLen == 75

(***************************************************************************)
(* Python values, as json.loads produces them: a record of the type name   *)
(* t and the value v.                                                      *)
(***************************************************************************)
PyNone == [t |-> "NoneType", v |-> 0]
PyBool(b) == [t |-> "bool", v |-> b]
PyInt(n) == [t |-> "int", v |-> n]
PyFloat(repr) == [t |-> "float", v |-> repr]
PyStr(s) == [t |-> "str", v |-> s]
PyList(items) == [t |-> "list", v |-> items]
PyDict(f) == [t |-> "dict", v |-> f]

\* bool(x)
Truthy(x) ==
    CASE x.t = "NoneType" -> FALSE
      [] x.t = "bool" -> x.v
      [] x.t = "int" -> x.v # 0
      [] x.t = "float" -> x.v # "0.0"
      [] x.t = "str" -> Len(x.v) > 0
      [] x.t = "list" -> Len(x.v) > 0
      [] x.t = "dict" -> DOMAIN x.v # {}

\* whether len(x) is defined; len(x) raises TypeError when it is not
HasLen(x) == x.t \in {"str", "list", "dict"}

\* len(x), for a value that has one
PyLen(x) ==
    CASE x.t = "str" -> Len(x.v)
      [] x.t = "list" -> Len(x.v)
      [] x.t = "dict" -> Cardinality(DOMAIN x.v)

\* str(e) of the TypeError len(x) raises
NoLenMessage(x) == <<"object of type '" \o x.t \o "' has no len()">>

\* whether needle occurs in hay (str.__contains__)
IsSubstring(needle, hay) ==
    \E i \in 1..(Len(hay) + 1) :
        /\ i + Len(needle) - 1 <= Len(hay)
        /\ SubSeq(hay, i, i + Len(needle) - 1) = needle

\* whether `key in x` can be evaluated; it raises TypeError when it cannot
HasContains(x) == x.t \in {"str", "list", "dict"}

\* `key in x` for a str key
Contains(x, key) ==
    CASE x.t = "dict" -> key \in DOMAIN x.v
      [] x.t = "list" -> \E i \in 1..Len(x.v) : x.v[i].t = "str" /\ x.v[i].v = key
      [] x.t = "str" -> IsSubstring(key, x.v)

\* str(e) of the TypeError `key in x` raises
NotIterableMessage(x) == <<"argument of type '" \o x.t \o "' is not iterable">>

\* whether x[key] is defined for a str key (after `key in x` was true)
HasItem(x) == x.t = "dict"

\* str(e) of the TypeError x['lines'] raises on a list or a str
BadIndexMessage(x) ==
    IF x.t = "list"
    THEN <<"list indices must be integers or slices, not str">>
    ELSE <<"string indices must be integers">>

\* the keys of a dict in some order (the order plays no part: keys are str)
RECURSIVE KeySeq(_)
KeySeq(keys) ==
    IF keys = {} THEN <<>>
    ELSE LET k == CHOOSE k \in keys : TRUE
         IN <<PyStr(k)>> \o KeySeq(keys \ {k})

\* the values `for item in x` yields, for a str, list or dict
Items(x) ==
    CASE x.t = "list" -> x.v
      [] x.t = "str" -> [i \in 1..Len(x.v) |-> PyStr(SubSeq(x.v, i, i))]
      [] x.t = "dict" -> KeySeq(DOMAIN x.v)

(***************************************************************************)
(* The body of a POST: the bytes rfile.read returns, by what decoding      *)
(* makes of them: bytes that are not UTF-8, text that is not JSON, or the  *)
(* value json.loads returns.                                               *)
(***************************************************************************)
NotUtf8 == [k |-> "not_utf8", v |-> PyNone]
NotJson == [k |-> "not_json", v |-> PyNone]
Json(value) == [k |-> "json", v |-> value]

\* str(e) of the UnicodeDecodeError bytes.decode('utf-8') raises
UnicodeDecodeMessage ==
    <<"'utf-8' codec can't decode byte 0xff in position 0: invalid start byte">>

\* required_fields, line 145
required_fields ==
    <<"lines", "biases", "styles", "stroke_colors", "stroke_widths", "filename">>

(***************************************************************************)
(* What lines 138-171 make of a body: an error response (send_error_response*)
(* and return), an exception that reaches the outer except clause, or the  *)
(* five arrays handed to the engine.                                       *)
(***************************************************************************)
NoArgs ==
    [lines |-> PyNone, biases |-> PyNone, styles |-> PyNone,
     stroke_colors |-> PyNone, stroke_widths |-> PyNone]

ValidationError(code, message) ==
    [kind |-> "error", code |-> code, message |-> message, args |-> NoArgs]

Raised(message) ==
    [kind |-> "raise", code |-> 0, message |-> message, args |-> NoArgs]

Validated(args) ==
    [kind |-> "ok", code |-> 0, message |-> <<>>, args |-> args]

\* the smallest member of a non-empty set of integers
Least(S) == CHOOSE i \in S : \A j \in S : i <= j

\* lines 167-171: every other array has the length of lines
CheckArrayLengths(data) ==
    LET arrays == <<data.v["biases"], data.v["styles"],
                    data.v["stroke_colors"], data.v["stroke_widths"]>>
        expected_length == PyLen(data.v["lines"])
        stop == {i \in 1..4 : \/ ~HasLen(arrays[i])
                               \/ PyLen(arrays[i]) # expected_length}
    IN  IF stop = {}
        THEN Validated([lines |-> data.v["lines"],
                        biases |-> data.v["biases"],
                        styles |-> data.v["styles"],
                        stroke_colors |-> data.v["stroke_colors"],
                        stroke_widths |-> data.v["stroke_widths"]])
        ELSE IF ~HasLen(arrays[Least(stop)])
        THEN Raised(NoLenMessage(arrays[Least(stop)]))
        ELSE ValidationError(400, <<"All arrays must have the same length as lines">>)

\* handle_generate_request without lines 163-165
CheckLineLengths_Skipped(data) == CheckArrayLengths(data)

\* lines 163-165: all(len(line) <= 75 for line in lines), which stops at the
\* first line that is too long or has no len()
CheckLineLengths(data) ==
    LET items == Items(data.v["lines"])
        stop == {i \in 1..Len(items) : \/ ~HasLen(items[i])
                                        \/ PyLen(items[i]) > MaxLineLen}
    IN  IF stop = {}
        THEN CheckArrayLengths(data)
        ELSE IF ~HasLen(items[Least(stop)])
        THEN Raised(NoLenMessage(items[Least(stop)]))
        ELSE ValidationError(400, <<"Each line must be 75 characters or less">>)

\* lines 158-161: `not lines or len(lines) == 0`
CheckLinesNonEmpty(data) ==
    LET lines == data.v["lines"]
    IN  IF ~Truthy(lines)
        THEN ValidationError(400, <<"Lines cannot be empty">>)
        ELSE IF ~HasLen(lines)
        THEN Raised(NoLenMessage(lines))
        ELSE IF PyLen(lines) = 0
        THEN ValidationError(400, <<"Lines cannot be empty">>)
        ELSE CheckLineLengths(data)

\* lines 146-149 without the return: the loop runs on, and the last missing
\* field is the one reported
CheckRequiredFields_LastMissing(data) ==
    LET missing == {i \in 1..Len(required_fields) :
                        ~Contains(data, required_fields[i])}
        last == CHOOSE i \in missing : \A j \in missing : j <= i
    IN  IF ~HasContains(data)
        THEN Raised(NotIterableMessage(data))
        ELSE IF missing # {}
        THEN ValidationError(400,
                 <<"Missing required field: " \o required_fields[last]>>)
        ELSE IF ~HasItem(data)
        THEN Raised(BadIndexMessage(data))
        ELSE CheckLinesNonEmpty(data)

\* lines 144-156: the first required field that is not `in data`, then the
\* six subscripts data[...]
CheckRequiredFields(data) ==
    LET missing == {i \in 1..Len(required_fields) :
                        ~Contains(data, required_fields[i])}
    IN  IF ~HasContains(data)
        THEN Raised(NotIterableMessage(data))
        ELSE IF missing # {}
        THEN ValidationError(400,
                 <<"Missing required field: " \o required_fields[Least(missing)]>>)
        ELSE IF ~HasItem(data)
        THEN Raised(BadIndexMessage(data))
        ELSE CheckLinesNonEmpty(data)

\* lines 138-156 with one more check after line 142: a filename that leaves
\* the directory is refused
Validate_ChecksFilename(post_data) ==
    IF post_data.k = "not_utf8"
    THEN Raised(UnicodeDecodeMessage)
    ELSE IF post_data.k = "not_json"
    THEN ValidationError(400, <<"Invalid JSON data">>)
    ELSE IF /\ post_data.v.t = "dict"
            /\ "filename" \in DOMAIN post_data.v.v
            /\ post_data.v.v["filename"] = PyStr("../b.svg")
    THEN ValidationError(400, <<"Invalid filename">>)
    ELSE CheckRequiredFields(post_data.v)

\* lines 138-142: json.loads(post_data.decode('utf-8')); only JSONDecodeError
\* is caught here
Validate(post_data) ==
    IF post_data.k = "not_utf8"
    THEN Raised(UnicodeDecodeMessage)
    ELSE IF post_data.k = "not_json"
    THEN ValidationError(400, <<"Invalid JSON data">>)
    ELSE CheckRequiredFields(post_data.v)

(***************************************************************************)
(* Text files and responses.                                               *)
(***************************************************************************)
\* a byte sequence that is not UTF-8, as one token of a file's content
InvalidUtf8 == "<0xff>"

\* whether f.read() of line 192 can decode the content
IsUtf8(content) == \A i \in 1..Len(content) : content[i] # InvalidUtf8

\* open(temp_filename, 'r', encoding='utf-8').read(): text mode with universal
\* newlines, which turns "\r\n" and "\r" into "\n"
ReadText(content) ==
    [i \in 1..Len(content) |->
        IF content[i] \in {"\r\n", "\r"} THEN "\n" ELSE content[i]]

\* svg_content.encode('utf-8'): the tokens of a str are the tokens of its bytes
EncodeUtf8(text) == text

\* str(e) of the FileNotFoundError open() raises
NoSuchFileMessage(name) ==
    <<"[Errno 2] No such file or directory: '" \o name \o "'">>

\* str(e) of the error wfile.write raises once the client is gone
BrokenPipeMessage == <<"[Errno 32] Broken pipe">>

\* str(e) of the TypeError int(self.headers['Content-Length']) raises when
\* the request has no Content-Length header
NoContentLengthMessage ==
    <<"int() argument must be a string, a bytes-like object or a real number, not 'NoneType'">>

\* json.dumps of a str: the quote and the backslash are escaped
JsonEscape(text) ==
    [i \in 1..Len(text) |->
        CASE text[i] = "\"" -> "\\\""
          [] text[i] = "\\" -> "\\\\"
          [] OTHER -> text[i]]

\* json.dumps({'error': message}), lines 219-220
JsonDumpsError(message) ==
    <<"{\"error\": \"">> \o JsonEscape(message) \o <<"\"}">>

\* lines 110-114 with 'model_loaded': True, whatever _hand_model is
JsonDumpsHealth_AlwaysLoaded(model_loaded) ==
    <<"{\"status\": \"healthy\", \"model_loaded\": ", "true", "}">>

\* json.dumps(health_data), lines 110-114
JsonDumpsHealth(model_loaded) ==
    <<"{\"status\": \"healthy\", \"model_loaded\": ",
      IF model_loaded THEN "true" ELSE "false", "}">>

\* what wfile.write puts on the wire: the status line and header block that
\* end_headers flushes, or a body
HeadChunk(status, headers) ==
    [k |-> "head", status |-> status, headers |-> headers, data |-> <<>>]
BodyChunk(data) ==
    [k |-> "body", status |-> 0, headers |-> <<>>, data |-> data]

CorsHeader == <<"Access-Control-Allow-Origin", "*">>

\* send_error_response, lines 212-220
send_error_response(code, message) ==
    << HeadChunk(code, << <<"Content-Type", "application/json">>, CorsHeader >>),
       BodyChunk(JsonDumpsError(message)) >>

\* BaseHTTPRequestHandler.send_error, as lines 117 and 124 call it: the
\* library's own headers and its HTML error page
send_error(code, message) ==
    << HeadChunk(code, << <<"Content-Type", "text/html;charset=utf-8">>,
                          <<"Connection", "close">> >>),
       BodyChunk(<<"<html>Error response: ", message, "</html>">>) >>

\* the 200 response of lines 195-199
SvgResponse(svg_content) ==
    << HeadChunk(200, << <<"Content-Type", "image/svg+xml">>, CorsHeader >>),
       BodyChunk(EncodeUtf8(svg_content)) >>

(***************************************************************************)
(* The inputs: requests, engine behaviours, temporary names.               *)
(***************************************************************************)
S75 == "aaaaaaaaaaaaaaaaaaaaaaaaaaaaaaaaaaaaaaaaaaaaaaaaaaaaaaaaaaaaaaaaaaaaaaaaaaa"
S76 == "bbbbbbbbbbbbbbbbbbbbbbbbbbbbbbbbbbbbbbbbbbbbbbbbbbbbbbbbbbbbbbbbbbbbbbbbbbbb"

LinesValues ==
    { PyList(<<>>),
      PyList(<<PyStr("Hi")>>),
      PyList(<<PyStr("Hi"), PyStr(S75)>>),
      PyList(<<PyStr("Hi"), PyStr(S76)>>),
      PyList(<<PyInt(5)>>),
      PyInt(5),
      PyNone,
      PyStr("Hi") }
BiasesValues ==
    { PyList(<<PyFloat("0.5")>>), PyList(<<PyFloat("0.5"), PyFloat("0.6")>>), PyInt(5) }
StylesValues == { PyList(<<PyInt(3)>>), PyList(<<PyInt(3), PyInt(4)>>) }
ColorsValues == { PyList(<<PyStr("#000")>>), PyList(<<PyStr("#000"), PyStr("#00f")>>) }
WidthsValues == { PyList(<<PyInt(1)>>), PyList(<<PyInt(1), PyInt(2)>>) }
FilenameValues == { PyStr("a.svg"), PyStr("../b.svg") }

FieldNames == {required_fields[i] : i \in 1..Len(required_fields)}

FieldValues(field) ==
    CASE field = "lines" -> LinesValues
      [] field = "biases" -> BiasesValues
      [] field = "styles" -> StylesValues
      [] field = "stroke_colors" -> ColorsValues
      [] field = "stroke_widths" -> WidthsValues
      [] field = "filename" -> FilenameValues

\* the functions on some of the fields i..6, each field with one of its values
RECURSIVE Mappings(_)
Mappings(i) ==
    IF i > Len(required_fields) THEN { <<>> }
    ELSE LET rest == Mappings(i + 1)
             field == required_fields[i]
         IN  rest \cup { (field :> value) @@ f : value \in FieldValues(field), f \in rest }

\* the JSON objects: any subset of the six keys, each with one of its values
Objects == { PyDict(f) : f \in Mappings(1) }

\* JSON texts whose top-level value is not an object
NonObjects ==
    { PyNone, PyInt(5), PyBool(TRUE), PyStr("lines"), PyList(<<>>),
      PyList(<<PyStr("lines")>>),
      PyList([i \in 1..Len(required_fields) |-> PyStr(required_fields[i])]) }

Bodies == {NotUtf8, NotJson} \cup {Json(v) : v \in Objects \cup NonObjects}

NoBody == [k |-> "none", v |-> PyNone]

Methods == {"OPTIONS", "GET", "POST", "PUT"}

\* request targets: the path and the query string of self.path
Targets ==
    { [path |-> "/", query |-> ""],
      [path |-> "/health", query |-> ""],
      [path |-> "/health", query |-> "x=1"],
      [path |-> "/generate", query |-> ""],
      [path |-> "/generate", query |-> "x=1"],
      [path |-> "/other", query |-> ""] }

\* self.path, the request target as sent
RawPath(target) ==
    IF target.query = "" THEN target.path ELSE target.path \o "?" \o target.query

\* urlparse(self.path).path, line 53
UrlPath(target) == target.path

GenerateTarget == [path |-> "/generate", query |-> ""]

\* a request: method, target, whether it has a Content-Length header, body
Request(method, target, has_length, body) ==
    [method |-> method, target |-> target, has_length |-> has_length, body |-> body]

\* POST /generate with a body, or without a Content-Length header
GenerateRequests ==
    { Request("POST", GenerateTarget, TRUE, body) : body \in Bodies }
        \cup { Request("POST", GenerateTarget, FALSE, NoBody) }

\* every other request; its body is never read
OtherRequests ==
    { Request(method, target, FALSE, NoBody) :
        method \in Methods, target \in Targets } \ GenerateRequests

NoRequest == Request("", [path |-> "", query |-> ""], FALSE, NoBody)

\* what Hand.write can do with the path it is given: raise, or return after
\* writing a document, after writing nothing, or after removing the file
EngineMessages == { <<"boom">>, <<"bad ", "\"", "style", "\"">> }
Documents ==
    { <<"<svg/>">>,
      <<"<svg>", "\n", "</svg>">>,
      <<"<svg>", "\r\n", "</svg>">>,
      <<"<svg>", InvalidUtf8, "</svg>">> }
EngineBehaviours ==
    { [does |-> "raise", message |-> m, document |-> <<>>] : m \in EngineMessages }
        \cup { [does |-> "write", message |-> <<>>, document |-> d] : d \in Documents }
        \cup { [does |-> "nothing", message |-> <<>>, document |-> <<>>],
               [does |-> "remove", message |-> <<>>, document |-> <<>>] }

\* the names tempfile.NamedTemporaryFile(suffix='.svg') can choose
TempNames == { "/tmp/tmpaaaa.svg", "/tmp/tmpbbbb.svg" }

\* str(e) of the OSError NamedTemporaryFile raises when it cannot create a file
NoSpaceMessage == <<"[Errno 28] No space left on device">>

(***************************************************************************)
(* The state.                                                              *)
(***************************************************************************)
VARIABLES
    hand_model,     \* HandwritingHandler._hand_model: unset, None or the Hand
    constructions,  \* how many times Hand() was called
    pending,        \* connections waiting in the listen backlog
    early,          \* how many of them arrived while _hand_model was unset
    handler,        \* the handler instances, by slot
    files           \* the temporary directory: name -> whether it exists, content

vars == <<hand_model, constructions, pending, early, handler, files>>

Handlers == 1..NumHandlers

Unset == [kind |-> "unset", id |-> 0]
None == [kind |-> "None", id |-> 0]
Hand(id) == [kind |-> "Hand", id |-> id]

\* an exception: the step that raised it and its str(e)
NoException == [raised |-> FALSE, origin |-> "", message |-> <<>>]
Exception(origin, message) ==
    [raised |-> TRUE, origin |-> origin, message |-> message]

NoCall == [calls |-> 0, filename |-> "", args |-> NoArgs, did |-> "", document |-> <<>>]

Absent == [exists |-> FALSE, content |-> <<>>]

\* a slot with no handler in it
Idle ==
    [pc |-> "idle",
     early |-> FALSE,           \* its connection arrived while _hand_model was unset
     constructed |-> FALSE,     \* its __init__ called Hand()
     observed |-> Unset,        \* _hand_model when its __init__ returned
     request |-> NoRequest,
     read |-> FALSE,            \* post_data was read (line 136)
     validated |-> FALSE,       \* line 173 was reached
     args |-> NoArgs,           \* lines, biases, styles, stroke_colors, stroke_widths
     temp_filename |-> "",
     engine |-> NoCall,         \* the calls of _hand_model.write and what they got
     svg_content |-> <<>>,
     exc |-> NoException,       \* the exception on its way to the except clause
     sending |-> <<>>,          \* what remains to be written to wfile
     in_try |-> "",             \* the try block the writes are in
     after |-> "",              \* where control goes after the writes
     wire |-> <<>>,             \* what was written to the connection
     connection |-> "open",
     escaped |-> FALSE]         \* an exception left the handler

Init ==
    /\ hand_model = Unset
    /\ constructions = 0
    /\ pending = 0
    /\ early = 0
    /\ handler = [h \in Handlers |-> Idle]
    /\ files = [name \in TempNames |-> Absent]

\* self._hand_model as a handler reads it
Loaded == hand_model.kind = "Hand"

\* a record that starts writing chunks; in_try names the enclosing try block
\* ("inner": lines 179-202, "outer": lines 128-207, "": none) and after the
\* place control reaches when the last write returns
StartSending(rec, chunks, in_try, after) ==
    [rec EXCEPT !.pc = "sending", !.sending = chunks,
                !.in_try = in_try, !.after = after]

(***************************************************************************)
(* run_server: HTTPServer accepts a connection and runs its handler to the *)
(* end before it accepts the next.                                         *)
(***************************************************************************)
\* a client connects
Arrive ==
    /\ pending < MaxPending
    /\ pending' = pending + 1
    /\ early' = IF hand_model = Unset THEN early + 1 ELSE early
    /\ UNCHANGED <<hand_model, constructions, handler, files>>

\* a ThreadingHTTPServer: a handler per connection, each in its own thread
ServerFree_Threading == TRUE

\* serve_forever is between two requests
ServerFree == \A h \in Handlers : handler[h].pc = "idle"

\* finish_request: HandwritingHandler(request, client_address, server)
Accept(h) ==
    /\ pending > 0
    /\ ServerFree
    /\ handler[h].pc = "idle"
    /\ \A k \in Handlers : handler[k].pc = "idle" => h <= k
    /\ pending' = pending - 1
    /\ early' = IF early > 0 THEN early - 1 ELSE 0
    /\ handler' = [handler EXCEPT ![h] = [Idle EXCEPT !.pc = "init",
                                                      !.early = early > 0]]
    /\ UNCHANGED <<hand_model, constructions, files>>

\* the handler is done (or its exception reached handle_error); the
\* connection is closed
Finish(h) ==
    /\ handler[h].pc = "done"
    /\ handler' = [handler EXCEPT ![h] = Idle]
    /\ UNCHANGED <<hand_model, constructions, pending, early, files>>

(***************************************************************************)
(* HandwritingHandler.__init__, lines 30-41.                               *)
(***************************************************************************)
\* line 32 testing `not getattr(HandwritingHandler, '_hand_model', None)`: a
\* failed construction is tried again
InitCheck_RetryAfterFailure(h) ==
    /\ handler[h].pc = "init"
    /\ handler' = [handler EXCEPT ![h] =
            IF hand_model.kind # "Hand"
            THEN [@ EXCEPT !.pc = "construct"]
            ELSE [@ EXCEPT !.pc = "parse", !.observed = hand_model]]
    /\ UNCHANGED <<hand_model, constructions, pending, early, files>>

\* line 32: hasattr(HandwritingHandler, '_hand_model')
InitCheck(h) ==
    /\ handler[h].pc = "init"
    /\ handler' = [handler EXCEPT ![h] =
            IF hand_model = Unset
            THEN [@ EXCEPT !.pc = "construct"]
            ELSE [@ EXCEPT !.pc = "parse", !.observed = hand_model]]
    /\ UNCHANGED <<hand_model, constructions, pending, early, files>>

\* lines 34-39: Hand() returns the engine or raises, and None is stored
Construct(h) ==
    /\ handler[h].pc = "construct"
    /\ \E ok \in BOOLEAN :
        LET value == IF ok THEN Hand(constructions + 1) ELSE None
        IN  /\ hand_model' = value
            /\ handler' = [handler EXCEPT ![h] =
                    [@ EXCEPT !.pc = "parse", !.constructed = TRUE,
                              !.observed = value]]
    /\ constructions' = constructions + 1
    /\ UNCHANGED <<pending, early, files>>

(***************************************************************************)
(* Routing: handle_one_request reads the request and calls do_<METHOD>.    *)
(***************************************************************************)
AllRequests == GenerateRequests \cup OtherRequests

\* do_OPTIONS, lines 43-49: headers only
do_OPTIONS(h) ==
    /\ handler[h].pc = "parse"
    /\ \E request \in AllRequests :
        /\ request.method = "OPTIONS"
        /\ handler' = [handler EXCEPT ![h] =
            StartSending([@ EXCEPT !.request = request],
                << HeadChunk(200, << CorsHeader,
                       <<"Access-Control-Allow-Methods", "GET, POST, OPTIONS">>,
                       <<"Access-Control-Allow-Headers", "Content-Type">> >>) >>,
                "", "done")]
    /\ UNCHANGED <<hand_model, constructions, pending, early, files>>

\* the status page of lines 61-101
StatusPage ==
    <<"<!DOCTYPE html> ... Model status: ",
      IF Truthy(PyBool(Loaded)) THEN "Loaded" ELSE "Failed to load",
      " ... </html>">>

\* do_GET, lines 51-117
do_GET(h) ==
    /\ handler[h].pc = "parse"
    /\ \E request \in AllRequests :
        /\ request.method = "GET"
        /\ handler' = [handler EXCEPT ![h] =
            StartSending([@ EXCEPT !.request = request],
                IF UrlPath(request.target) = "/"
                THEN << HeadChunk(200, << <<"Content-Type", "text/html">>, CorsHeader >>),
                        BodyChunk(StatusPage) >>
                ELSE IF UrlPath(request.target) = "/health"
                THEN << HeadChunk(200, << <<"Content-Type", "application/json">>,
                                          CorsHeader >>),
                        BodyChunk(JsonDumpsHealth(hand_model # None)) >>
                ELSE send_error(404, "Not Found"),
                "", "done")]
    /\ UNCHANGED <<hand_model, constructions, pending, early, files>>

\* do_POST, lines 119-124
do_POST(h) ==
    /\ handler[h].pc = "parse"
    /\ \E request \in AllRequests :
        /\ request.method = "POST"
        /\ handler' = [handler EXCEPT ![h] =
            IF RawPath(request.target) = "/generate"
            THEN [@ EXCEPT !.request = request, !.pc = "check_model"]
            ELSE StartSending([@ EXCEPT !.request = request],
                              send_error(404, "Not Found"), "", "done")]
    /\ UNCHANGED <<hand_model, constructions, pending, early, files>>

\* a method the class has no do_ method for: handle_one_request answers 501
UnsupportedMethod(h) ==
    /\ handler[h].pc = "parse"
    /\ \E request \in AllRequests :
        /\ request.method \notin {"OPTIONS", "GET", "POST"}
        /\ handler' = [handler EXCEPT ![h] =
            StartSending([@ EXCEPT !.request = request],
                send_error(501, "Unsupported method ('" \o request.method \o "')"),
                "", "done")]
    /\ UNCHANGED <<hand_model, constructions, pending, early, files>>

(***************************************************************************)
(* handle_generate_request, lines 126-210.                                 *)
(***************************************************************************)
\* handle_generate_request without lines 129-132
CheckModel_Missing(h) ==
    /\ handler[h].pc = "check_model"
    /\ handler' = [handler EXCEPT ![h] = [@ EXCEPT !.pc = "read"]]
    /\ UNCHANGED <<hand_model, constructions, pending, early, files>>

\* lines 129-132: `if not self._hand_model`
CheckModel(h) ==
    /\ handler[h].pc = "check_model"
    /\ handler' = [handler EXCEPT ![h] =
            IF ~Loaded
            THEN StartSending(@,
                     send_error_response(500, <<"Handwriting model not loaded">>),
                     "outer", "done")
            ELSE [@ EXCEPT !.pc = "read"]]
    /\ UNCHANGED <<hand_model, constructions, pending, early, files>>

\* lines 175-177 moved up to line 134: the temporary file is created before
\* the body is read and validated
ReadAndValidate_FileFirst(h) ==
    /\ handler[h].pc = "read"
    /\ \E name \in TempNames :
        /\ ~files[name].exists
        /\ files' = [files EXCEPT ![name] = [exists |-> TRUE, content |-> <<>>]]
        /\ LET request == handler[h].request
               outcome == Validate(request.body)
           IN  handler' = [handler EXCEPT ![h] =
                IF ~request.has_length
                THEN [@ EXCEPT !.temp_filename = name, !.pc = "except",
                               !.exc = Exception("read", NoContentLengthMessage)]
                ELSE IF outcome.kind = "error"
                THEN StartSending([@ EXCEPT !.temp_filename = name, !.read = TRUE],
                         send_error_response(outcome.code, outcome.message),
                         "outer", "done")
                ELSE IF outcome.kind = "raise"
                THEN [@ EXCEPT !.temp_filename = name, !.read = TRUE, !.pc = "except",
                               !.exc = Exception("validate", outcome.message)]
                ELSE [@ EXCEPT !.temp_filename = name, !.read = TRUE,
                               !.validated = TRUE,
                               !.args = outcome.args, !.pc = "render"]]
    /\ UNCHANGED <<hand_model, constructions, pending, early>>

\* lines 134-173: read the body and validate it
ReadAndValidate(h) ==
    /\ handler[h].pc = "read"
    /\ LET request == handler[h].request
           outcome == Validate(request.body)
       IN  handler' = [handler EXCEPT ![h] =
            IF ~request.has_length
            THEN [@ EXCEPT !.pc = "except",
                           !.exc = Exception("read", NoContentLengthMessage)]
            ELSE IF outcome.kind = "error"
            THEN StartSending([@ EXCEPT !.read = TRUE],
                     send_error_response(outcome.code, outcome.message),
                     "outer", "done")
            ELSE IF outcome.kind = "raise"
            THEN [@ EXCEPT !.read = TRUE, !.pc = "except",
                           !.exc = Exception("validate", outcome.message)]
            ELSE [@ EXCEPT !.read = TRUE, !.validated = TRUE,
                           !.args = outcome.args, !.pc = "create"]]
    /\ UNCHANGED <<hand_model, constructions, pending, early, files>>

\* lines 175-177: NamedTemporaryFile(delete=False) creates an empty file under
\* a name that does not exist yet, or raises
CreateTempFile(h) ==
    /\ handler[h].pc = "create"
    /\ \/ \E name \in TempNames :
            /\ ~files[name].exists
            /\ files' = [files EXCEPT ![name] = [exists |-> TRUE, content |-> <<>>]]
            /\ handler' = [handler EXCEPT ![h] =
                    [@ EXCEPT !.temp_filename = name, !.pc = "render"]]
       \/ /\ handler' = [handler EXCEPT ![h] =
                    [@ EXCEPT !.pc = "except", !.exc = Exception("create", NoSpaceMessage)]]
          /\ UNCHANGED files
    /\ UNCHANGED <<hand_model, constructions, pending, early>>

\* lines 180-188: self._hand_model.write(filename=temp_filename, ...)
Render(h) ==
    /\ handler[h].pc = "render"
    /\ \E behaviour \in EngineBehaviours :
        LET name == handler[h].temp_filename
            call == [calls |-> handler[h].engine.calls + 1,
                     filename |-> name,
                     args |-> handler[h].args,
                     did |-> behaviour.does,
                     document |-> behaviour.document]
        IN  /\ files' =
                  CASE behaviour.does = "write" ->
                         [files EXCEPT ![name] =
                             [exists |-> TRUE, content |-> behaviour.document]]
                    [] behaviour.does = "remove" ->
                         [files EXCEPT ![name] = Absent]
                    [] OTHER -> files
            /\ handler' = [handler EXCEPT ![h] =
                  IF behaviour.does = "raise"
                  THEN [@ EXCEPT !.engine = call, !.pc = "finally",
                                 !.exc = Exception("render", behaviour.message)]
                  ELSE [@ EXCEPT !.engine = call, !.pc = "read_back"]]
    /\ UNCHANGED <<hand_model, constructions, pending, early>>

\* lines 190-198: read the file back as text and start the 200 response
ReadBack(h) ==
    /\ handler[h].pc = "read_back"
    /\ LET file == files[handler[h].temp_filename]
       IN  handler' = [handler EXCEPT ![h] =
            IF ~file.exists
            THEN [@ EXCEPT !.pc = "finally",
                           !.exc = Exception("read_back",
                               NoSuchFileMessage(handler[h].temp_filename))]
            ELSE IF ~IsUtf8(file.content)
            THEN [@ EXCEPT !.pc = "finally",
                           !.exc = Exception("read_back", UnicodeDecodeMessage)]
            ELSE StartSending([@ EXCEPT !.svg_content = ReadText(file.content)],
                     SvgResponse(ReadText(file.content)), "inner", "finally")]
    /\ UNCHANGED <<hand_model, constructions, pending, early, files>>

\* wfile.write of the next chunk (end_headers, or the body): it succeeds, or
\* the client is gone and it raises
Write(h) ==
    /\ handler[h].pc = "sending"
    /\ \E ok \in (IF handler[h].connection = "open" THEN BOOLEAN ELSE {FALSE}) :
        handler' = [handler EXCEPT ![h] =
            IF ok
            THEN [@ EXCEPT !.wire = Append(@, Head(handler[h].sending)),
                           !.sending = Tail(@),
                           !.pc = IF Len(handler[h].sending) = 1
                                  THEN handler[h].after ELSE "sending"]
            ELSE IF @.in_try = "inner"
            THEN [@ EXCEPT !.connection = "broken", !.sending = <<>>,
                           !.pc = "finally", !.exc = Exception("write", BrokenPipeMessage)]
            ELSE IF @.in_try = "outer"
            THEN [@ EXCEPT !.connection = "broken", !.sending = <<>>,
                           !.pc = "except", !.exc = Exception("write", BrokenPipeMessage)]
            ELSE [@ EXCEPT !.connection = "broken", !.sending = <<>>,
                           !.pc = "done", !.escaped = TRUE]]
    /\ UNCHANGED <<hand_model, constructions, pending, early, files>>

\* the clean-up of lines 205-206 at the end of the try body instead of in a
\* finally clause: it is skipped when an exception is on its way
Finally_OnlyOnSuccess(h) ==
    /\ handler[h].pc = "finally"
    /\ files' = IF files[handler[h].temp_filename].exists /\ ~handler[h].exc.raised
                THEN [files EXCEPT ![handler[h].temp_filename] = Absent]
                ELSE files
    /\ handler' = [handler EXCEPT ![h] =
            [@ EXCEPT !.pc = IF handler[h].exc.raised THEN "except" ELSE "done"]]
    /\ UNCHANGED <<hand_model, constructions, pending, early>>

\* lines 203-206: the finally clause, then the except clause if an exception
\* is on its way
Finally(h) ==
    /\ handler[h].pc = "finally"
    /\ files' = IF files[handler[h].temp_filename].exists
                THEN [files EXCEPT ![handler[h].temp_filename] = Absent]
                ELSE files
    /\ handler' = [handler EXCEPT ![h] =
            [@ EXCEPT !.pc = IF handler[h].exc.raised THEN "except" ELSE "done"]]
    /\ UNCHANGED <<hand_model, constructions, pending, early>>

\* line 210 with a fixed message, without str(e)
ExceptClause_NoCause(h) ==
    /\ handler[h].pc = "except"
    /\ handler' = [handler EXCEPT ![h] =
            StartSending(@,
                send_error_response(500, <<"Internal server error">>),
                "", "done")]
    /\ UNCHANGED <<hand_model, constructions, pending, early, files>>

\* lines 208-210: except Exception as e
ExceptClause(h) ==
    /\ handler[h].pc = "except"
    /\ handler' = [handler EXCEPT ![h] =
            StartSending(@,
                send_error_response(500,
                    <<"Internal server error: ">> \o handler[h].exc.message),
                "", "done")]
    /\ UNCHANGED <<hand_model, constructions, pending, early, files>>

Next ==
    \/ Arrive
    \/ \E h \in Handlers : Accept(h)
    \/ \E h \in Handlers : InitCheck(h)
    \/ \E h \in Handlers : Construct(h)
    \/ \E h \in Handlers : do_OPTIONS(h)
    \/ \E h \in Handlers : do_GET(h)
    \/ \E h \in Handlers : do_POST(h)
    \/ \E h \in Handlers : UnsupportedMethod(h)
    \/ \E h \in Handlers : CheckModel(h)
    \/ \E h \in Handlers : ReadAndValidate(h)
    \/ \E h \in Handlers : CreateTempFile(h)
    \/ \E h \in Handlers : Render(h)
    \/ \E h \in Handlers : ReadBack(h)
    \/ \E h \in Handlers : Write(h)
    \/ \E h \in Handlers : Finally(h)
    \/ \E h \in Handlers : ExceptClause(h)
    \/ \E h \in Handlers : Finish(h)

Spec == Init /\ [][Next]_vars

(***************************************************************************)
(* What the claims speak of.                                               *)
(***************************************************************************)
\* the handler has returned
Finished(h) == handler[h].pc = "done"

\* the request is POST /generate
IsGenerate(h) ==
    /\ handler[h].request.method = "POST"
    /\ handler[h].request.target = [path |-> "/generate", query |-> ""]

\* __init__ has returned
PastInit(h) == handler[h].pc \notin {"idle", "init", "construct"}

\* the handler has returned and every write to the client succeeded
Answered(h) ==
    /\ Finished(h)
    /\ handler[h].connection = "open"
    /\ ~handler[h].escaped

\* the POST /generate request got as far as reading its body (the engine
\* is loaded and the request has a Content-Length)
BodyRead(h) == IsGenerate(h) /\ handler[h].read

\* the characters of a text
RECURSIVE Text(_)
Text(tokens) == IF tokens = <<>> THEN "" ELSE Head(tokens) \o Text(Tail(tokens))

\* a header block holds the header
HasHeader(chunk, name, value) ==
    \E i \in 1..Len(chunk.headers) : chunk.headers[i] = <<name, value>>

\* the characters of the string a JSON string literal's content stands for;
\* "<invalid>" when it holds a bare quote or backslash
JsonStringValue(content) ==
    IF \E i \in 1..Len(content) : content[i] \in {"\"", "\\"}
    THEN "<invalid>"
    ELSE Text([i \in 1..Len(content) |->
                 CASE content[i] = "\\\"" -> "\""
                   [] content[i] = "\\\\" -> "\\"
                   [] OTHER -> content[i]])

\* the body is the JSON object {"error": message}
IsErrorJson(data, message) ==
    /\ Len(data) >= 2
    /\ data[1] = "{\"error\": \""
    /\ data[Len(data)] = "\"}"
    /\ JsonStringValue(SubSeq(data, 2, Len(data) - 1)) = message

\* the connection carries one response: the status, Content-Type
\* application/json, and the body {"error": message}
IsJsonError(h, status, message) ==
    LET wire == handler[h].wire
    IN  /\ Len(wire) = 2
        /\ wire[1].k = "head"
        /\ wire[1].status = status
        /\ HasHeader(wire[1], "Content-Type", "application/json")
        /\ wire[2].k = "body"
        /\ IsErrorJson(wire[2].data, message)

\* the order of the required keys, as the spec lists them
ClaimedKeys ==
    <<"lines", "biases", "styles", "stroke_colors", "stroke_widths", "filename">>

\* the body decodes to a JSON object
IsObject(body) == body.k = "json" /\ body.v.t = "dict"

\* the required keys a JSON object lacks, by their place in the list
MissingKeys(body) ==
    {i \in 1..Len(ClaimedKeys) : ClaimedKeys[i] \notin DOMAIN body.v.v}

IsListOfStrings(x) ==
    x.t = "list" /\ \A i \in 1..Len(x.v) : x.v[i].t = "str"

OtherArrays == {"biases", "styles", "stroke_colors", "stroke_widths"}

\* a body the five checks are defined on: bytes that do not decode, or an
\* object whose lines, if present, is a list of strings and whose other
\* arrays, if present, are lists
WellTyped(body) ==
    \/ body.k \in {"not_utf8", "not_json"}
    \/ /\ IsObject(body)
       /\ "lines" \in DOMAIN body.v.v => IsListOfStrings(body.v.v["lines"])
       /\ \A k \in OtherArrays \cap DOMAIN body.v.v : body.v.v[k].t = "list"

\* the first of the five checks the body fails, 0 when it passes all
FirstFailingCheck(body) ==
    IF ~IsObject(body) THEN 1
    ELSE IF MissingKeys(body) # {} THEN 2
    ELSE LET lines == body.v.v["lines"].v
         IN  IF Len(lines) = 0 THEN 3
             ELSE IF \E i \in 1..Len(lines) : Len(lines[i].v) > 75 THEN 4
             ELSE IF \E k \in OtherArrays : Len(body.v.v[k].v) # Len(lines) THEN 5
             ELSE 0

\* the message of each check
CheckMessage(check, body) ==
    CASE check = 1 -> "Invalid JSON data"
      [] check = 2 -> "Missing required field: " \o ClaimedKeys[Least(MissingKeys(body))]
      [] check = 3 -> "Lines cannot be empty"
      [] check = 4 -> "Each line must be 75 characters or less"
      [] check = 5 -> "All arrays must have the same length as lines"

\* an object with all six keys, N >= 1 lines of at most 75 characters, and
\* the four other arrays of length N
IsValidPayload(body) == WellTyped(body) /\ FirstFailingCheck(body) = 0

(***************************************************************************)
(* C1: once the handling of a POST /generate request has finished, the     *)
(* temporary file created for it does not exist, whichever way the handler *)
(* was left after creating it; and between requests the temporary          *)
(* directory holds no file of the server.                                  *)
(***************************************************************************)
C1_NoTempFileLeft ==
    /\ \A h \in Handlers :
        (Finished(h) /\ handler[h].temp_filename # "")
            => ~files[handler[h].temp_filename].exists
    /\ (\A h \in Handlers : handler[h].pc \in {"idle", "done"})
            => \A name \in TempNames : ~files[name].exists

\* a request has finished whose render raised after its file was created
C1_Witness ==
    \E h \in Handlers :
        /\ Finished(h)
        /\ handler[h].temp_filename # ""
        /\ handler[h].exc.raised
        /\ handler[h].exc.origin = "render"

(***************************************************************************)
(* C2: Hand() is called at most once per process: no handler gets past     *)
(* __init__ before the one attempt was made, and once _hand_model is set   *)
(* (to the engine or to None) no step calls Hand() again or changes it.    *)
(***************************************************************************)
C2_ConstructedOnce ==
    [][ /\ constructions' <= 1
        /\ hand_model # Unset
              => (hand_model' = hand_model /\ constructions' = constructions)
        /\ \A h \in Handlers :
              handler'[h].pc \notin {"idle", "init", "construct"}
                  => (hand_model' # Unset /\ constructions' = 1) ]_vars

\* after a failed construction a later POST /generate was handled to the end
\* by a handler that did not construct
C2_Witness ==
    \E h \in Handlers :
        /\ hand_model = None
        /\ constructions = 1
        /\ Finished(h)
        /\ IsGenerate(h)
        /\ ~handler[h].constructed

(***************************************************************************)
(* C9: of the requests that arrive before the engine is initialized, one   *)
(* constructs it, once, and every handler that has left __init__ holds the *)
(* outcome of that one construction.                                       *)
(***************************************************************************)
C9_OneConstructionForAll ==
    /\ constructions <= 1
    /\ \A h \in Handlers :
        PastInit(h) => /\ constructions = 1
                       /\ hand_model # Unset
                       /\ handler[h].observed = hand_model

\* a request that arrived while _hand_model was unset, and did not construct,
\* has left __init__ with the outcome of the one construction
C9_Witness ==
    \E h \in Handlers :
        /\ handler[h].early
        /\ ~handler[h].constructed
        /\ PastInit(h)
        /\ constructions = 1
        /\ handler[h].observed = hand_model

(***************************************************************************)
(* C3: a request that fails one or more of the five checks (JSON decode,   *)
(* required keys, lines non-empty, lines at most 75 characters, array      *)
(* lengths) is answered with one 400 response carrying the message of the  *)
(* first check it fails.                                                   *)
(***************************************************************************)
C3_FirstFailingCheckAnswers ==
    \A h \in Handlers :
        LET body == handler[h].request.body
        IN  (/\ Answered(h)
             /\ BodyRead(h)
             /\ WellTyped(body)
             /\ FirstFailingCheck(body) # 0)
            => IsJsonError(h, 400, CheckMessage(FirstFailingCheck(body), body))

(***************************************************************************)
(* C4: a JSON object that lacks required keys is answered 400 with         *)
(* "Missing required field: <key>", <key> being the first missing key in   *)
(* the order lines, biases, styles, stroke_colors, stroke_widths, filename.*)
(***************************************************************************)
C4_FirstMissingKeyNamed ==
    \A h \in Handlers :
        LET body == handler[h].request.body
        IN  (/\ Answered(h)
             /\ BodyRead(h)
             /\ IsObject(body)
             /\ MissingKeys(body) # {})
            => IsJsonError(h, 400,
                   "Missing required field: " \o ClaimedKeys[Least(MissingKeys(body))])

\* an answered request whose object has lines but lacks two keys or more
C4_Witness ==
    \E h \in Handlers :
        LET body == handler[h].request.body
        IN  /\ Answered(h)
            /\ BodyRead(h)
            /\ IsObject(body)
            /\ "lines" \in DOMAIN body.v.v
            /\ Cardinality(MissingKeys(body)) >= 2

(***************************************************************************)
(* C5: with the engine loaded, a valid payload for which the engine wrote  *)
(* a document and returned is answered 200, image/svg+xml, with that       *)
(* document as the body, and the engine got the payload's five arrays and  *)
(* the temporary path.                                                     *)
(***************************************************************************)
C5_ValidPayloadGetsDocument ==
    \A h \in Handlers :
        LET body == handler[h].request.body
            wire == handler[h].wire
            call == handler[h].engine
        IN  (/\ Answered(h)
             /\ BodyRead(h)
             /\ IsValidPayload(body)
             /\ call.did = "write")
            => /\ call.calls = 1
               /\ call.filename = handler[h].temp_filename
               /\ \A k \in OtherArrays \cup {"lines"} : call.args[k] = body.v.v[k]
               /\ Len(wire) = 2
               /\ wire[1].k = "head"
               /\ wire[1].status = 200
               /\ HasHeader(wire[1], "Content-Type", "image/svg+xml")
               /\ wire[2].k = "body"
               /\ wire[2].data = call.document

(***************************************************************************)
(* C6: while _hand_model is None, every POST /generate, whatever its body, *)
(* is answered 500, application/json, {"error": "Handwriting model not     *)
(* loaded"}, before the body is read, a file created or the engine called. *)
(***************************************************************************)
C6_UnloadedAlwaysFails ==
    \A h \in Handlers :
        (/\ Finished(h)
         /\ IsGenerate(h)
         /\ hand_model = None
         /\ handler[h].connection = "open")
        => /\ IsJsonError(h, 500, "Handwriting model not loaded")
           /\ ~handler[h].read
           /\ ~handler[h].validated
           /\ handler[h].temp_filename = ""
           /\ handler[h].engine.calls = 0

\* a POST /generate with a valid payload was answered while the engine was None
C6_Witness ==
    \E h \in Handlers :
        /\ Answered(h)
        /\ IsGenerate(h)
        /\ hand_model = None
        /\ IsValidPayload(handler[h].request.body)

(***************************************************************************)
(* C7: for a validated request, an exception raised by the creation of the *)
(* temporary file, by the render call or by reading the file back becomes  *)
(* one response: 500, application/json, {"error": "Internal server error:  *)
(* <str(e)>"}.                                                             *)
(***************************************************************************)
C7_ExceptionBecomes500 ==
    \A h \in Handlers :
        (/\ Answered(h)
         /\ handler[h].validated
         /\ handler[h].exc.raised
         /\ handler[h].exc.origin \in {"create", "render", "read_back"})
        => IsJsonError(h, 500,
               "Internal server error: " \o Text(handler[h].exc.message))

\* the render call raised with a message that holds a double quote, and the
\* request was answered
C7_Witness ==
    \E h \in Handlers :
        /\ Answered(h)
        /\ handler[h].validated
        /\ handler[h].exc.raised
        /\ handler[h].exc.origin = "render"
        /\ \E i \in 1..Len(handler[h].exc.message) : handler[h].exc.message[i] = "\""

(***************************************************************************)
(* C8: with the engine loaded, a body that is not UTF-8, not JSON, or not  *)
(* a JSON object is answered 400 {"error": "Invalid JSON data"}.           *)
(***************************************************************************)
C8_UndecodableBodyIs400 ==
    \A h \in Handlers :
        (/\ Answered(h)
         /\ BodyRead(h)
         /\ ~IsObject(handler[h].request.body))
        => IsJsonError(h, 400, "Invalid JSON data")

(***************************************************************************)
(* C10: every status line and header block the server writes carries       *)
(* Access-Control-Allow-Origin: *.                                         *)
(***************************************************************************)
C10_EveryResponseHasCors ==
    \A h \in Handlers :
        \A i \in 1..Len(handler[h].wire) :
            handler[h].wire[i].k = "head"
                => HasHeader(handler[h].wire[i], "Access-Control-Allow-Origin", "*")

(***************************************************************************)
(* C11: a request whose (method, path) is none of OPTIONS any-path, GET /, *)
(* GET /health, POST /generate is answered with status 404, whatever its   *)
(* method.                                                                 *)
(***************************************************************************)
\* the (method, path) pairs the spec gives a route to
IsRouted(request) ==
    \/ request.method = "OPTIONS"
    \/ request.method = "GET" /\ request.target.path \in {"/", "/health"}
    \/ request.method = "POST" /\ request.target.path = "/generate"

C11_UnroutedIs404 ==
    \A h \in Handlers :
        (/\ Answered(h)
         /\ ~IsRouted(handler[h].request))
        => /\ Len(handler[h].wire) = 2
           /\ handler[h].wire[1].k = "head"
           /\ handler[h].wire[1].status = 404

(***************************************************************************)
(* C12: GET /health is answered 200, application/json, with the body       *)
(* {"status": "healthy", "model_loaded": b}, b being true exactly when the *)
(* engine is loaded: the response is a function of the engine state alone, *)
(* so repeated calls in one engine state get identical responses.          *)
(***************************************************************************)
IsHealth(h) ==
    /\ handler[h].request.method = "GET"
    /\ handler[h].request.target.path = "/health"

C12_HealthReflectsEngine ==
    \A h \in Handlers :
        (Answered(h) /\ IsHealth(h))
        => LET wire == handler[h].wire
           IN  /\ Len(wire) = 2
               /\ wire[1].k = "head"
               /\ wire[1].status = 200
               /\ HasHeader(wire[1], "Content-Type", "application/json")
               /\ wire[2].k = "body"
               /\ Text(wire[2].data) =
                    "{\"status\": \"healthy\", \"model_loaded\": "
                        \o (IF hand_model.kind = "Hand" THEN "true" ELSE "false")
                        \o "}"

\* GET /health was answered after the construction failed, by a handler later
\* than the one that constructed
C12_Witness ==
    \E h \in Handlers :
        /\ Answered(h)
        /\ IsHealth(h)
        /\ hand_model = None
        /\ ~handler[h].constructed

(***************************************************************************)
(* C13: _hand_model.write is called only with a validated request: lines   *)
(* is non-empty, every entry of lines has length at most 75, and biases,   *)
(* styles, stroke_colors and stroke_widths each have len(lines) entries;   *)
(* and it is called at most once per request.                              *)
(***************************************************************************)
\* the five arrays are what the spec calls validated
IsValidatedArgs(args) ==
    /\ HasLen(args.lines)
    /\ PyLen(args.lines) >= 1
    /\ \A i \in 1..Len(Items(args.lines)) :
          /\ HasLen(Items(args.lines)[i])
          /\ PyLen(Items(args.lines)[i]) <= 75
    /\ \A k \in OtherArrays :
          /\ HasLen(args[k])
          /\ PyLen(args[k]) = PyLen(args.lines)

C13_RenderOnlyValidated ==
    \A h \in Handlers :
        /\ handler[h].engine.calls <= 1
        /\ handler[h].pc = "render" => IsValidatedArgs(handler[h].args)
        /\ handler[h].engine.calls >= 1 => IsValidatedArgs(handler[h].engine.args)

\* the engine was called with two lines, one of them of 75 characters
C13_Witness ==
    \E h \in Handlers :
        /\ handler[h].engine.calls = 1
        /\ handler[h].engine.args.lines.t = "list"
        /\ Len(handler[h].engine.args.lines.v) = 2
        /\ \E i \in 1..2 : Len(handler[h].engine.args.lines.v[i].v) = 75

(***************************************************************************)
(* C14: the temporary file of a successful POST /generate is released      *)
(* before the 200 response is written: in no state has any part of the 200 *)
(* response been sent while that request's temporary file still exists.    *)
(***************************************************************************)
\* the status line and headers of a 200 response are on the wire
SuccessStarted(h) ==
    /\ IsGenerate(h)
    /\ Len(handler[h].wire) >= 1
    /\ handler[h].wire[1].k = "head"
    /\ handler[h].wire[1].status = 200

C14_ReleasedBeforeResponse ==
    \A h \in Handlers :
        (SuccessStarted(h) /\ handler[h].temp_filename # "")
            => ~files[handler[h].temp_filename].exists

(***************************************************************************)
(* C15: every POST /generate gets exactly one response (one status line    *)
(* and header block, one body) on every path, a failed write of the 200    *)
(* response included: no exception leaves the handler, and no second       *)
(* response is started after one was started.                              *)
(***************************************************************************)
\* a status line and header block are on the wire already
ResponseStarted(h) ==
    \E i \in 1..Len(handler[h].wire) : handler[h].wire[i].k = "head"

C15_ExactlyOneResponse ==
    \A h \in Handlers :
        IsGenerate(h) =>
            /\ Finished(h) =>
                  /\ ~handler[h].escaped
                  /\ Len(handler[h].wire) = 2
                  /\ handler[h].wire[1].k = "head"
                  /\ handler[h].wire[2].k = "body"
            /\ (/\ handler[h].pc = "sending"
                /\ handler[h].sending # <<>>
                /\ Head(handler[h].sending).k = "head")
                  => ~ResponseStarted(h)

(***************************************************************************)
(* C16: a POST /generate answered with the 500 "Handwriting model not      *)
(* loaded" error or with a 400 validation error creates no temporary file  *)
(* and does not call the engine: a file is created and write is called     *)
(* only after every validation check has passed with a loaded engine.      *)
(***************************************************************************)
\* the request was answered with the not-loaded error or a 400
Rejected(h) ==
    /\ IsGenerate(h)
    /\ Len(handler[h].wire) = 2
    /\ handler[h].wire[1].k = "head"
    /\ \/ handler[h].wire[1].status = 400
       \/ IsJsonError(h, 500, "Handwriting model not loaded")

C16_RejectedTouchesNothing ==
    \A h \in Handlers :
        /\ Rejected(h) =>
              /\ handler[h].temp_filename = ""
              /\ handler[h].engine.calls = 0
              /\ \A name \in TempNames : ~files[name].exists
        /\ (handler[h].temp_filename # "" \/ handler[h].engine.calls > 0) =>
              /\ IsGenerate(h)
              /\ handler[h].validated
              /\ hand_model.kind = "Hand"

\* a request that passed every check but the last, the array lengths, was
\* answered 400
C16_Witness ==
    \E h \in Handlers :
        /\ Answered(h)
        /\ BodyRead(h)
        /\ IsJsonError(h, 400, "All arrays must have the same length as lines")

(***************************************************************************)
(* C17: the value of filename has no effect: what a POST /generate whose   *)
(* payload holds the key filename does (validation outcome, the arguments  *)
(* of the engine call, status, headers and body of the response) is what   *)
(* the same payload with any other filename value does in the same engine  *)
(* state with the same engine behaviour; and the path the server creates,  *)
(* hands to the engine and deletes is the one NamedTemporaryFile chose,    *)
(* never the filename value.                                               *)
(***************************************************************************)
\* the payload with another value under the key filename
WithFilename(body, value) ==
    Json(PyDict([k \in DOMAIN body.v.v |->
                    IF k = "filename" THEN value ELSE body.v.v[k]]))

\* what the handler did is what validation of the payload `other` leads to
SameOutcomeAs(h, other) ==
    LET outcome == Validate(other)
        wire == handler[h].wire
        call == handler[h].engine
    IN  /\ outcome.kind = "ok" =>
              /\ handler[h].validated
              /\ handler[h].args = outcome.args
              /\ call.calls > 0 => call.args = outcome.args
              /\ (Answered(h) /\ ~handler[h].exc.raised) =>
                    /\ Len(wire) = 2
                    /\ wire[1] = HeadChunk(200, << <<"Content-Type", "image/svg+xml">>,
                                                   CorsHeader >>)
                    /\ wire[2] = BodyChunk(ReadText(call.document))
              /\ (Answered(h) /\ handler[h].exc.raised) =>
                    /\ handler[h].exc.origin \in {"create", "render", "read_back"}
                    /\ IsJsonError(h, 500, "Internal server error: "
                                              \o Text(handler[h].exc.message))
        /\ outcome.kind = "error" =>
              /\ ~handler[h].validated
              /\ call.calls = 0
              /\ Answered(h) => IsJsonError(h, outcome.code, Text(outcome.message))
        /\ outcome.kind = "raise" =>
              /\ ~handler[h].validated
              /\ call.calls = 0
              /\ Answered(h) => IsJsonError(h, 500, "Internal server error: "
                                                       \o Text(outcome.message))

C17_FilenameHasNoEffect ==
    \A h \in Handlers :
        LET body == handler[h].request.body
        IN  (/\ BodyRead(h)
             /\ IsObject(body)
             /\ "filename" \in DOMAIN body.v.v)
            => /\ \A value \in FilenameValues : SameOutcomeAs(h, WithFilename(body, value))
               /\ handler[h].temp_filename \in TempNames \cup {""}
               /\ handler[h].temp_filename # body.v.v["filename"].v
               /\ handler[h].engine.calls > 0 =>
                     handler[h].engine.filename = handler[h].temp_filename

\* a valid payload whose filename is "../b.svg" was rendered and answered 200
C17_Witness ==
    \E h \in Handlers :
        /\ Answered(h)
        /\ BodyRead(h)
        /\ IsValidPayload(handler[h].request.body)
        /\ handler[h].request.body.v.v["filename"] = PyStr("../b.svg")
        /\ handler[h].engine.did = "write"
        /\ handler[h].wire[1].status = 200

====
